---- MODULE Spec2Model ----
(***************************************************************************)
(* A model of the tg runtime session (src/src/tg/runtime/driver.cc) and of *)
(* the autoscheduler context (src/src/tg/autoschedule/auto_schedule.cc).   *)
(*                                                                         *)
(* Spec          the tuning pipeline of one task: begin_tuning, the        *)
(*               schedule, build and evaluate workers, end_tuning.         *)
(* FairSpec      the same pipeline with weak fairness of every thread.     *)
(* SchedulerSpec AutoScheduleContext: auto_schedule and add_feedback.      *)
(* RoundTripSpec run(save_to) followed by prepare_for_test in a fresh      *)
(*               session.                                                  *)
(*                                                                         *)
(* The iteration order of std::unordered_set / std::unordered_map is       *)
(* unspecified; a range-for over one is a choice of any remaining element. *)
(* Every operation on a queue or a map is taken as one atomic step.        *)
(***************************************************************************)
EXTENDS Integers, Sequences, FiniteSets, Bags, TLC

\* ---------------------------------------------------------------- bounds

\* begin_tuning is called with advance_number in 1..MaxAdvance
MaxAdvance == 1
\* first_stage_number given to begin_tuning
FirstStageNumber == 0
\* second_stage_topk_ratio given to begin_tuning, as RatioNum / RatioDen
RatioNum == 1
RatioDen == 2
\* searches, builds and measurements that fail in one run, in total
MaxFail == 1
\* evaluate_performance returns -1 (failure) or 1..MaxTime milliseconds
MaxTime == 2
\* the schedule space holds the entities 1..MaxEntity
MaxEntity == 2
\* the entities a search of the pipeline may return are 1..MaxSearchEntity
MaxSearchEntity == 1
\* searches, builds and measurements that fail in a run that is followed
\* through a failed measurement and the emergency it raises
MaxFaults == 2
\* calls of begin_tuning in one run
MaxBegin == 1
\* the queue limit of run_autoschedule and run_build (1000U in the source,
\* scaled down so that a run can fill a queue)
QueueLimit == 1

\* autoschedule_topk and autoschedule_new_trial of the session option
TopK == 1
NewTrial == 1
\* judge values and evaluations are 0..MaxScore
MaxScore == 2

\* double best_value = -1: a judge at or below it is never chosen; the lowest
\* score of the model
MinScore == -1
\* searches on one context
MaxCounts == 2
\* the size of knowing_schedules past which it becomes known_schedules (500U in
\* the source, scaled down)
KnowingLimit == 1

\* jobs submitted to the thread pool
MaxJobs == 5

\* add_task calls on one session
MaxTasks == 2

\* begin_tuning calls on a task that is tuned, ended and tuned again
MaxRebegin == 2

\* run calls on a task
MaxRuns == 1

\* bindings.size() of a run call: the iterations it executes
MaxBindings == 2

\* subgraphs of a MultiGraph given to add_task
MaxKeys == 3

\* create_session calls
MaxSessions == 3

\* the advance number of a tuning of one subgraph that is followed further
LongAdvance == 2

\* lines of a reference file
MaxLines == 2

\* prepare_for_test calls on a task
MaxLoads == 2

\* get_gflop(subgraph), the same for every subgraph
SubgraphGflop == 1
\* the gflops and elapsed time prepare_for_test stores
Sentinel == -999

\* ---------------------------------------------------------------- graphs

\* TIRMultiGraph: graphs[key]->tag and graph_attrs[key]->successors;
\* graph_attrs[key]->num_predecessor is the number of keys that name key
\* as a successor (the partitioner's invariant).
Chain == [keys |-> {0, 1},
          succ |-> (0 :> {1} @@ 1 :> {}),
          tag  |-> (0 :> "a" @@ 1 :> "a")]

Pair == [keys |-> {0, 1},
         succ |-> (0 :> {} @@ 1 :> {}),
         tag  |-> (0 :> "a" @@ 1 :> "b")]

Single == [keys |-> {0},
           succ |-> (0 :> {}),
           tag  |-> (0 :> "a")]

Graphs == {Chain, Pair}

LiveGraphs == {Single}

AllKeys == {0, 1}

Entities == 1..MaxEntity

SearchEntities == 1..MaxSearchEntity

Workers == {"schedule", "build", "evaluate"}

\* ---------------------------------------------------------------- state

VARIABLES
  multi_graph,           \* task_cache[task_id]
  advance_number,        \* the advance_number of the running workers
  finish,                \* finish[task_id]
  in_tuning,             \* in_tuning[task_id] (absent = FALSE)
  cached_all_functions,  \* cached_all_functions[task_id] (absent = FALSE)
  threads,               \* sch_threads, build_threads, evaluate_threads: registered?
  future_functions,      \* key -> queue of [sch, ok]: schedule and the outcome of its future
  built_functions,       \* key -> queue of schedule results (with module and function)
  best_functions,        \* key -> queue of [sch, gflops, time]
  emergency_schedule_queue,
  emergency_build_queue,
  sch,                   \* the run_autoschedule thread: its locals and position
  bld,                   \* the run_build thread
  evl,                   \* the run_evaluate thread
  ctl,                   \* the caller: position, begin_tuning calls made and allowed,
                         \* and the failures that may happen in the run
  next_id,               \* schedule results made so far (each gets a fresh id)
  fails,                 \* failures so far
  pushed,                \* history: key -> ids pushed into built_functions[key]
  popped,                \* history: key -> ids the evaluate worker popped
  late,                  \* history: measurements the evaluate worker began with finish set
  context,               \* AutoScheduler::contexts[key], for one key
  disk,                  \* the file run(save_to) writes: its lines, in order
  fresh,                 \* the session that loads the file: built and best functions
  exe,                   \* a caller of run(task_id, bindings): its position in run_functions
  tasks,                 \* task_count, task_cache and static_call_order
  pool,                  \* ThreadPool: the deque of tasks and the jobs submitted
  call,                  \* the last call made on the AutoScheduleContext
  registry,              \* create_or_get_session: sessions, global_count, the last call
  peer                   \* a second task tuning in the session: the keys its workers took

vars == <<multi_graph, advance_number, finish, in_tuning, cached_all_functions,
          threads, future_functions, built_functions, best_functions,
          emergency_schedule_queue, emergency_build_queue, sch, bld, evl, ctl,
          next_id, fails, pushed, popped, late, context, disk, fresh, exe, tasks,
          pool, call, registry, peer>>

sessionVars == <<finish, in_tuning, cached_all_functions, threads>>
queueVars == <<future_functions, built_functions, best_functions,
               emergency_schedule_queue, emergency_build_queue>>
histVars == <<pushed, popped, late>>
pipelineVars == <<multi_graph, advance_number, sessionVars, queueVars, sch, bld, evl,
                  ctl, next_id, fails, histVars>>
restVars == <<exe, tasks, pool, call, registry, peer>>
otherVars == <<context, disk, fresh, restVars>>

\* ---------------------------------------------------------------- helpers

Keys == multi_graph.keys

Successors(k) == multi_graph.succ[k]

Tag(k) == multi_graph.tag[k]

\* graph_attrs[k]->num_predecessor
NumPredecessor(k) == Cardinality({j \in Keys : k \in Successors(j)})

Predecessors(k) == {j \in Keys : k \in Successors(j)}

\* the free set every DAG walk starts from: the keys with num_predecessor == 0
InitialFreeAll == Keys
InitialFree == {k \in Keys : NumPredecessor(k) = 0}

InitialOrder == [k \in Keys |-> NumPredecessor(k)]

\* for (succ : successors) { order[succ] -= 1; if (order[succ] == 0) update_set.insert(succ); }
ReleasedOrder(order, k) ==
  [j \in DOMAIN order |-> IF j \in Successors(k) THEN order[j] - 1 ELSE order[j]]

Released(order, k) == {j \in Successors(k) : order[j] - 1 = 0}

\* gflops = get_gflop(subgraph) / (elapsed_time / 1e3 + 1e-8), rounded down
GflopsOf(elapsed) == (SubgraphGflop * 100000000) \div (elapsed * 100000 + 1)

\* std::ceil(graphs.size() * second_stage_topk_ratio)
SecondStageTopkAll == Cardinality(Keys)
SecondStageTopk == (Cardinality(Keys) * RatioNum + RatioDen - 1) \div RatioDen

\* operator< of KeyAndTime: the max_heap has the largest time on top
KeyAndTimeLess(a, b) == a.time < b.time

Min(a, b) == IF a < b THEN a ELSE b

\* the keys popped from the max_heap of (key, time) over best_functions: the
\* second_stage_topk keys of largest time, any of them on a tie
SecondStageFreeSets ==
  LET have == {k \in AllKeys : best_functions[k] /= <<>>}
      time(k) == Head(best_functions[k]).time
      n == Min(SecondStageTopk, Cardinality(have))
  IN {S \in SUBSET have :
        /\ Cardinality(S) = n
        /\ \A k \in S : \A j \in have \ S :
             ~KeyAndTimeLess([key |-> k, time |-> time(k)], [key |-> j, time |-> time(j)])}

\* std::queue: push, front, pop
Push(q, x) == Append(q, x)

FrontLast(q) == q[Len(q)]
Front(q) == Head(q)

Pop(q) == Tail(q)

\* a failure may still happen in this run
CanFail == fails < ctl.faults

\* ---------------------------------------------------------------- Init

\* a worker thread's locals; asked is history: the tags of the normal-priority
\* searches the schedule worker has issued in its current iteration, in order
NoWorker ==
  [pc |-> "idle", ad |-> 0, first |-> TRUE, allow |-> FALSE, free |-> {},
   order |-> [k \in AllKeys |-> 0], todo |-> {}, upd |-> {}, del |-> {},
   tags |-> {}, count |-> 0, cur |-> 0, done |-> {}, cache |-> <<>>,
   complete |-> FALSE, asked |-> <<>>]

\* an AutoScheduleContext as schedule_func constructs it; searching tells that
\* a thread of the pool is inside auto_schedule on the context
NoContext ==
  [policy |-> "random", topk_schedules |-> EmptyBag, known_schedules |-> {},
   knowing_schedules |-> {}, counts |-> 0, result |-> 0, searching |-> FALSE]

NoFile == [written |-> FALSE, lines |-> <<>>]

\* no call of run yet
NoRun ==
  [pc |-> "idle", runs |-> 0, error |-> FALSE, iters |-> 0, ad |-> 0, pos |-> 0,
   invoked |-> <<>>]

\* a session before any add_task
NoTasks == [count |-> 0, cache |-> <<>>, order |-> <<>>, returned |-> <<>>]

\* a ThreadPool with nothing submitted
NoPool == [tasks |-> <<>>, submitted |-> 0]

NoCall == [op |-> "none", entity |-> 0, evaluation |-> 0, batch |-> <<>>, judges |-> <<>>]

\* the parts of the state a specification does not follow
\* create_or_get_session before any call: no session, global_count = 0
NoRegistry ==
  [sessions |-> <<>>, global_count |-> 0, live |-> {}, op |-> "none", arg |-> 0,
   result |-> [kind |-> "none", id |-> 0]]

\* a second task U of the session, tuning: nothing taken yet by its schedule
\* worker (sch) or its build worker (bld)
NoPeer == [sch |-> <<>>, bld |-> <<>>]

InitRest ==
  /\ registry = NoRegistry
  /\ peer = NoPeer
  /\ exe = NoRun
  /\ tasks = NoTasks
  /\ pool = NoPool
  /\ call = NoCall

NoSession ==
  [loaded |-> FALSE, built_functions |-> [k \in AllKeys |-> <<>>],
   best_functions |-> [k \in AllKeys |-> <<>>]]

\* a session with no tuning thread, whatever its best functions and its caller
InitQueues ==
  /\ advance_number = 0
  /\ finish = FALSE
  /\ in_tuning = FALSE
  /\ threads = [w \in Workers |-> FALSE]
  /\ future_functions = [k \in AllKeys |-> <<>>]
  /\ built_functions = [k \in AllKeys |-> <<>>]
  /\ emergency_schedule_queue = <<>>
  /\ emergency_build_queue = <<>>
  /\ sch = NoWorker
  /\ bld = NoWorker
  /\ evl = NoWorker
  /\ next_id = 0
  /\ fails = 0
  /\ pushed = [k \in AllKeys |-> <<>>]
  /\ popped = [k \in AllKeys |-> <<>>]
  /\ late = 0

\* the caller will call begin_tuning at most MaxBegin times
InitThreads ==
  /\ InitQueues
  /\ ctl = [pc |-> "added", begins |-> 0, limit |-> MaxBegin, faults |-> MaxFail]

InitSession ==
  /\ InitThreads
  /\ cached_all_functions = FALSE
  /\ best_functions = [k \in AllKeys |-> <<>>]

\* the session after add_task(graph)
Init ==
  /\ multi_graph \in Graphs
  /\ InitSession
  /\ context = NoContext
  /\ disk = NoFile
  /\ fresh = NoSession
  /\ InitRest

\* ---------------------------------------------------------------- DAG walk

\* delete_set.insert(k), and with release the successors' counters go down
MarkDone(r, k, release) ==
  [r EXCEPT !.del = @ \cup {k},
            !.done = @ \cup {k},
            !.order = IF release THEN ReleasedOrder(@, k) ELSE @,
            !.upd = IF release THEN @ \cup Released(r.order, k) ELSE @]

\* a walk's locals at the head of an iteration
FreshWalk(r) ==
  [r EXCEPT !.free = InitialFree, !.order = InitialOrder, !.todo = {},
            !.upd = {}, !.del = {}, !.tags = {}, !.count = 0, !.done = {},
            !.cur = 0, !.cache = <<>>, !.complete = FALSE, !.asked = <<>>]

\* ---------------------------------------------------------------- schedule worker

\* after the while loop of one iteration: the first-stage count check
SchEndIter(r) ==
  IF r.first /\ r.count /= Cardinality(Keys)
  THEN [r EXCEPT !.pc = "fatal"]
  ELSE [FreshWalk(r) EXCEPT !.pc = "iter", !.ad = r.ad + 1, !.free = {},
                            !.first = TRUE]

\* while (!free_set.empty()) { update_set, delete_set; for (cand : free_set) ...
SchStartSweep(r) ==
  IF r.free = {} THEN SchEndIter(r)
  ELSE [r EXCEPT !.todo = r.free, !.upd = {}, !.del = {}, !.pc = "visit"]

\* the end of one node visit: the next cand, or the end of the for loop
SchAfterNode(r) ==
  LET r1 == [r EXCEPT !.todo = @ \ {r.cur}, !.cur = 0]
  IN IF r1.todo = {}
     THEN SchStartSweep([r1 EXCEPT !.free = (r1.free \ r1.del) \cup r1.upd])
     ELSE r1

\* for (ad = 0; ad < schedule_trials; ++ad): the stage and the free set
SchBeginIter ==
  /\ sch.pc = "iter"
  /\ IF sch.ad >= advance_number
     THEN sch' = [sch EXCEPT !.pc = "wait"]
     ELSE \E rnd \in BOOLEAN :
            LET first == \/ sch.ad < FirstStageNumber
                         \/ ~cached_all_functions
                         \/ rnd
            IN IF first
               THEN sch' = SchStartSweep([FreshWalk(sch) EXCEPT !.first = TRUE])
               ELSE \E S \in SecondStageFreeSets :
                      sch' = SchStartSweep([FreshWalk(sch) EXCEPT !.first = FALSE,
                                                                 !.free = S])
  /\ UNCHANGED <<multi_graph, advance_number, sessionVars, queueVars, bld, evl, ctl,
                 next_id, fails, histVars>>
  /\ UNCHANGED otherVars

\* the outcome of one search (ok, the entity found) and of the build it
\* starts (bok), when f failures have happened
OutcomesAt(f) == {o \in [ok : BOOLEAN, bok : BOOLEAN, ent : SearchEntities] :
                    /\ (~o.ok \/ ~o.bok) => f < ctl.faults
                    /\ ~o.ok => (o.bok /\ o.ent = 1)}

NoOutcome == [ok |-> TRUE, bok |-> TRUE, ent |-> 1]

FailsOf(o) == IF o.ok /\ o.bok THEN 0 ELSE 1

\* what the schedule worker reads and writes of the session
SchShared ==
  [esq |-> emergency_schedule_queue, ff |-> future_functions,
   ebq |-> emergency_build_queue, id |-> next_id, fails |-> fails]

\* schedule_for(key, ..., 1), schedule_result.get(), build_for(..., 1): on success
\* the key leaves the emergency schedule queue, its future enters
\* future_functions[key] and the key enters the emergency build queue
EmergencyScheduleKeepsKey(q, o) ==
  LET key == Head(q.esq)
      sr == [id |-> q.id + 1, ent |-> o.ent]
  IN IF o.ok
     THEN [esq |-> q.esq,
           ff |-> [q.ff EXCEPT ![key] = Push(@, [sch |-> sr, ok |-> o.bok])],
           ebq |-> Push(q.ebq, key),
           id |-> q.id + 1,
           fails |-> q.fails + FailsOf(o)]
     ELSE [q EXCEPT !.fails = @ + 1]
EmergencySchedule(q, o) ==
  LET key == Head(q.esq)
      sr == [id |-> q.id + 1, ent |-> o.ent]
  IN IF o.ok
     THEN [esq |-> Tail(q.esq),
           ff |-> [q.ff EXCEPT ![key] = Push(@, [sch |-> sr, ok |-> o.bok])],
           ebq |-> Push(q.ebq, key),
           id |-> q.id + 1,
           fails |-> q.fails + FailsOf(o)]
     ELSE [q EXCEPT !.fails = @ + 1]

\* future_functions[cand] after the normal branch made the future f
FutureAfterPush(fq, f) == IF Len(fq) > QueueLimit THEN fq ELSE Push(fq, f)

\* schedule_for(cand, ..., 0), schedule_result.get(), build_for(...)
NormalSchedule(q, cand, o) ==
  IF o.ok
  THEN [q EXCEPT !.ff = [q.ff EXCEPT ![cand] =
                           FutureAfterPush(@, [sch |-> [id |-> q.id + 1, ent |-> o.ent],
                                               ok |-> o.bok])],
                 !.id = @ + 1,
                 !.fails = @ + FailsOf(o)]
  ELSE [q EXCEPT !.fails = @ + 1]

\* one pass of the body of for (cand : free_set): peek finish, serve the head of
\* the emergency schedule queue, then skip a tag already scheduled or search
SchVisit ==
  /\ sch.pc = "visit"
  /\ IF finish
     THEN /\ sch' = [sch EXCEPT !.pc = "done"]
          /\ UNCHANGED <<emergency_schedule_queue, future_functions,
                         emergency_build_queue, next_id, fails>>
     ELSE \E cand \in sch.todo :
          \E o1 \in IF emergency_schedule_queue /= <<>> THEN OutcomesAt(fails)
                     ELSE {NoOutcome} :
            LET q1 == IF emergency_schedule_queue /= <<>>
                      THEN EmergencySchedule(SchShared, o1) ELSE SchShared
                skip == Tag(cand) \in sch.tags
                r == [sch EXCEPT !.cur = cand,
                                 !.asked = IF skip THEN @ ELSE Append(@, Tag(cand))]
            IN \E o2 \in IF skip THEN {NoOutcome} ELSE OutcomesAt(q1.fails) :
                 LET q2 == IF skip THEN q1 ELSE NormalSchedule(q1, cand, o2) IN
                 /\ sch' = SchAfterNode(
                       IF skip
                       THEN [MarkDone(r, cand, r.first) EXCEPT !.count = @ + 1]
                       ELSE IF o2.ok
                       THEN [MarkDone(r, cand, r.first)
                               EXCEPT !.count = @ + 1, !.tags = @ \cup {Tag(cand)}]
                       ELSE r)
                 /\ emergency_schedule_queue' = q2.esq
                 /\ future_functions' = q2.ff
                 /\ emergency_build_queue' = q2.ebq
                 /\ next_id' = q2.id
                 /\ fails' = q2.fails
  /\ UNCHANGED <<multi_graph, advance_number, sessionVars, built_functions,
                 best_functions, bld, evl, ctl, histVars>>
  /\ UNCHANGED otherVars

\* while (1): until finish, serve the emergency schedule queue
SchWait ==
  /\ sch.pc = "wait"
  /\ IF finish
     THEN /\ sch' = [sch EXCEPT !.pc = "done"]
          /\ UNCHANGED <<emergency_schedule_queue, future_functions,
                         emergency_build_queue, next_id, fails>>
     ELSE /\ emergency_schedule_queue /= <<>>
          /\ \E o \in OutcomesAt(fails) :
               LET q == EmergencySchedule(SchShared, o) IN
               /\ emergency_schedule_queue' = q.esq
               /\ future_functions' = q.ff
               /\ emergency_build_queue' = q.ebq
               /\ next_id' = q.id
               /\ fails' = q.fails
          /\ UNCHANGED sch
  /\ UNCHANGED <<multi_graph, advance_number, sessionVars, built_functions,
                 best_functions, bld, evl, ctl, histVars>>
  /\ UNCHANGED otherVars

\* ---------------------------------------------------------------- build worker

\* after the while loop of one iteration: the build count check
BldEndIter(r) ==
  IF ~r.allow /\ r.count /= Cardinality(Keys)
  THEN [r EXCEPT !.pc = "fatal"]
  ELSE [FreshWalk(r) EXCEPT !.pc = "iter", !.ad = r.ad + 1, !.free = {},
                            !.allow = FALSE]

BldStartSweep(r) ==
  IF r.free = {} THEN BldEndIter(r)
  ELSE [r EXCEPT !.todo = r.free, !.upd = {}, !.del = {}, !.pc = "visit"]

BldAfterNode(r) ==
  LET r1 == [r EXCEPT !.todo = @ \ {r.cur}, !.cur = 0]
  IN IF r1.todo = {}
     THEN BldStartSweep([r1 EXCEPT !.free = (r1.free \ r1.del) \cup r1.upd])
     ELSE r1

\* for (ad = 0; ad < build_trials; ++ad): allow_missing, peek finish, the free set
BldBeginIter ==
  /\ bld.pc = "iter"
  /\ bld' = IF bld.ad >= advance_number THEN [bld EXCEPT !.pc = "wait"]
            ELSE IF finish THEN [bld EXCEPT !.pc = "done"]
            ELSE BldStartSweep([FreshWalk(bld) EXCEPT !.allow = cached_all_functions])
  /\ UNCHANGED <<multi_graph, advance_number, sessionVars, queueVars, sch, evl, ctl,
                 next_id, fails, histVars>>
  /\ UNCHANGED otherVars

\* what the build worker reads and writes of the session
BldShared ==
  [ff |-> future_functions, bf |-> built_functions, ebq |-> emergency_build_queue,
   pushed |-> pushed]

\* the emergency branch: the front of future_functions[key] is read, not popped;
\* when its module is got the key leaves the emergency build queue and the
\* artifact enters built_functions[key]
EmergencyBuild(b) ==
  LET key == Head(b.ebq) IN
  IF b.ff[key] /= <<>> /\ Head(b.ff[key]).ok
  THEN LET f == Head(b.ff[key]) IN
       [b EXCEPT !.ebq = Tail(@),
                 !.bf = [b.bf EXCEPT ![key] = Push(@, f.sch)],
                 !.pushed = [b.pushed EXCEPT ![key] = Append(@, f.sch.id)]]
  ELSE b

\* built_functions[cand] after the normal branch got the module of sr
BuiltAfterPush(bq, sr) == IF Len(bq) > QueueLimit THEN bq ELSE Push(bq, sr)

\* the normal branch with a future at hand: pop it, wait for its module, push
NormalBuild(b, cand) ==
  LET f == Head(b.ff[cand])
      bq == BuiltAfterPush(b.bf[cand], f.sch)
  IN IF f.ok
     THEN [b EXCEPT !.ff = [b.ff EXCEPT ![cand] = Tail(@)],
                    !.bf = [b.bf EXCEPT ![cand] = bq],
                    !.pushed = IF bq = b.bf[cand] THEN b.pushed
                               ELSE [b.pushed EXCEPT ![cand] = Append(@, f.sch.id)]]
     ELSE [b EXCEPT !.ff = [b.ff EXCEPT ![cand] = Tail(@)]]

\* catch { if (allow_missing) ... } and else if (allow_missing): a node without
\* a future, or whose compile failed, advances only under allow_missing
MissingAlwaysAdvances(allow_missing) == TRUE
MissingAdvances(allow_missing) == allow_missing

\* one pass of the body of for (cand : free_set): peek finish, serve the head of
\* the emergency build queue, then skip a tag already built or build
BldVisit ==
  /\ bld.pc = "visit"
  /\ IF finish
     THEN /\ bld' = [bld EXCEPT !.pc = "done"]
          /\ UNCHANGED <<future_functions, built_functions, emergency_build_queue,
                         pushed>>
     ELSE \E cand \in bld.todo :
            LET b1 == IF emergency_build_queue /= <<>>
                      THEN EmergencyBuild(BldShared) ELSE BldShared
                skip == Tag(cand) \in bld.tags
                have == ~skip /\ b1.ff[cand] /= <<>>
                built == have /\ Head(b1.ff[cand]).ok
                b2 == IF have THEN NormalBuild(b1, cand) ELSE b1
                r == [bld EXCEPT !.cur = cand]
            IN /\ bld' = BldAfterNode(
                     IF skip
                     THEN [MarkDone(r, cand, TRUE) EXCEPT !.count = @ + 1]
                     ELSE IF built
                     THEN [MarkDone(r, cand, TRUE)
                             EXCEPT !.count = @ + 1, !.tags = @ \cup {Tag(cand)}]
                     ELSE IF MissingAdvances(r.allow) THEN MarkDone(r, cand, TRUE)
                     ELSE r)
               /\ future_functions' = b2.ff
               /\ built_functions' = b2.bf
               /\ emergency_build_queue' = b2.ebq
               /\ pushed' = b2.pushed
  /\ UNCHANGED <<multi_graph, advance_number, sessionVars, best_functions,
                 emergency_schedule_queue, sch, evl, ctl, next_id, fails, popped,
                 late>>
  /\ UNCHANGED otherVars

\* while (1): until finish, serve the emergency build queue
BldWait ==
  /\ bld.pc = "wait"
  /\ IF finish
     THEN /\ bld' = [bld EXCEPT !.pc = "done"]
          /\ UNCHANGED <<future_functions, built_functions, emergency_build_queue,
                         pushed>>
     ELSE /\ emergency_build_queue /= <<>>
          /\ LET b == EmergencyBuild(BldShared) IN
             /\ future_functions' = b.ff
             /\ built_functions' = b.bf
             /\ emergency_build_queue' = b.ebq
             /\ pushed' = b.pushed
          /\ UNCHANGED bld
  /\ UNCHANGED <<multi_graph, advance_number, sessionVars, best_functions,
                 emergency_schedule_queue, sch, evl, ctl, next_id, fails, popped,
                 late>>
  /\ UNCHANGED otherVars

\* ---------------------------------------------------------------- evaluate worker

\* while (true): allow_missing, the finish check, a fresh evaluate_cache and walk
EvlBeginPass ==
  /\ evl.pc = "pass"
  /\ evl' = IF finish THEN [evl EXCEPT !.pc = "done", !.allow = cached_all_functions]
            ELSE [FreshWalk(evl) EXCEPT !.pc = "sweep",
                                        !.allow = cached_all_functions]
  /\ UNCHANGED <<multi_graph, advance_number, sessionVars, queueVars, sch, bld, ctl,
                 next_id, fails, histVars>>
  /\ UNCHANGED otherVars

\* while (!free_set.empty()) { check finish; ...}  cached_all_functions[task_id] = true
EvlSweep ==
  /\ evl.pc = "sweep"
  /\ IF evl.free = {} \/ finish
     THEN /\ cached_all_functions' = TRUE
          /\ evl' = [evl EXCEPT !.pc = "pass", !.complete = (evl.free = {})]
     ELSE /\ evl' = [evl EXCEPT !.todo = evl.free, !.upd = {}, !.del = {},
                                !.pc = "node"]
          /\ UNCHANGED cached_all_functions
  /\ UNCHANGED <<multi_graph, advance_number, finish, in_tuning, threads, queueVars,
                 sch, bld, ctl, next_id, fails, histVars>>
  /\ UNCHANGED otherVars

\* best_functions[key] after a measurement of rec: set when empty, replaced
\* (push, then pop) when rec has more gflops than the front
BestAfterMeasurePopOnly(q, rec) ==
  IF q = <<>> THEN Push(q, rec)
  ELSE IF rec.gflops > Head(q).gflops THEN Pop(q)
  ELSE q
BestAfterMeasure(q, rec) ==
  IF q = <<>> THEN Push(q, rec)
  ELSE IF rec.gflops > Head(q).gflops THEN Tail(Push(q, rec))
  ELSE q

\* best_functions[key] after the front of a same-tag key's best is copied in
BestAfterAlias(q, rec) ==
  IF q = <<>> THEN Push(q, rec) ELSE Tail(Push(q, rec))

\* the elapsed times evaluate_performance may return
Elapsed == (IF CanFail THEN {-1} ELSE {}) \cup (1..MaxTime)

\* if (!succ && this->best_functions[key].empty() && taken): the key is pushed
\* onto the emergency schedule queue
NeedsEmergencyUntaken(succ, best, taken) == ~succ /\ best = <<>>
NeedsEmergency(succ, best, taken) == ~succ /\ best = <<>> /\ taken

\* evaluate_helper(key, update_set, delete_set), for any key of the for loop
EvlNode ==
  /\ evl.pc = "node"
  /\ \E key \in evl.todo : \E elapsed \in Elapsed :
       LET taken == built_functions[key] /= <<>>
           measured == taken /\ elapsed > 0
           sr == Front(built_functions[key])
           rec == [sch |-> sr, gflops |-> GflopsOf(elapsed), time |-> elapsed]
           best1 == IF measured
                    THEN [best_functions EXCEPT ![key] = BestAfterMeasure(@, rec)]
                    ELSE best_functions
           cache1 == IF measured THEN (Tag(key) :> key) @@ evl.cache ELSE evl.cache
           alias == /\ ~measured
                    /\ Tag(key) \in DOMAIN cache1
                    /\ best1[cache1[Tag(key)]] /= <<>>
           best2 == IF alias
                    THEN [best1 EXCEPT ![key] =
                            BestAfterAlias(@, Head(best1[cache1[Tag(key)]]))]
                    ELSE best1
           succ == measured \/ alias
           r1 == [evl EXCEPT !.cache = cache1, !.cur = key]
           r2 == IF succ \/ evl.allow THEN MarkDone(r1, key, TRUE) ELSE r1
           r3 == [r2 EXCEPT !.todo = @ \ {key}, !.cur = 0]
       IN /\ (~taken) => elapsed = 1
          /\ built_functions' = IF taken
                                THEN [built_functions EXCEPT ![key] = Pop(@)]
                                ELSE built_functions
          /\ popped' = IF taken THEN [popped EXCEPT ![key] = Append(@, sr.id)]
                       ELSE popped
          /\ fails' = IF taken /\ elapsed <= 0 THEN fails + 1 ELSE fails
          /\ best_functions' = best2
          /\ emergency_schedule_queue' =
               IF NeedsEmergency(succ, best2[key], taken)
               THEN Push(emergency_schedule_queue, key)
               ELSE emergency_schedule_queue
          /\ late' = IF finish /\ taken THEN late + 1 ELSE late
          /\ evl' = IF r3.todo = {}
                    THEN [r3 EXCEPT !.free = (r3.free \ r3.del) \cup r3.upd,
                                    !.upd = {}, !.del = {}, !.pc = "sweep"]
                    ELSE r3
  /\ UNCHANGED <<multi_graph, advance_number, sessionVars, future_functions,
                 emergency_build_queue, sch, bld, ctl, next_id, pushed>>
  /\ UNCHANGED otherVars

\* ---------------------------------------------------------------- session calls

\* MultiScheduleEntity::to_string and multi_schedule_entity_from_string
EntityToString(e) == <<"entity", e>>
EntityFromString(s) == s[2]

\* std::to_string(double): "%f", six digits after the point
DoubleToString(x) == <<"%f", x * 1000000>>

\* the keys of S in increasing order
RECURSIVE KeySeq(_)
KeySeq(S) ==
  IF S = {} THEN <<>>
  ELSE LET m == CHOOSE x \in S : \A y \in S : x <= y
       IN <<m>> \o KeySeq(S \ {m})

\* a reference file with one line key|entity|gflops|time for every key
FullReference ==
  [i \in 1..Cardinality(Keys) |->
     [key |-> KeySeq(Keys)[i], entity |-> EntityToString(1),
      gflops |-> DoubleToString(0), time |-> DoubleToString(0)]]

\* the tuple prepare_for_test pushes into best_functions[key] for a line
LoadedBestParsed(sr, line) ==
  [sch |-> sr, gflops |-> line.gflops[2] \div 1000000,
   time |-> line.time[2] \div 1000000]
LoadedBest(sr, line) == [sch |-> sr, gflops |-> Sentinel, time |-> Sentinel]

\* prepare_for_test, the while (getline) loop: s holds built_functions,
\* best_functions, the tag cache, the ids made and the history of pushes
RECURSIVE LoadLines(_, _)
LoadLines(lines, s) ==
  IF lines = <<>> THEN s
  ELSE LET line == Head(lines)
           key == line.key
           sr == [id |-> s.id + 1, ent |-> EntityFromString(line.entity)]
       IN LoadLines(Tail(lines),
            [built |-> [s.built EXCEPT ![key] = Push(@, sr)],
             best |-> [s.best EXCEPT ![key] = Push(@, LoadedBest(sr, line))],
             cache |-> IF Tag(key) \in DOMAIN s.cache THEN s.cache
                       ELSE (Tag(key) :> key) @@ s.cache,
             id |-> s.id + 1,
             pushed |-> [s.pushed EXCEPT ![key] = Append(@, s.id + 1)]])

\* prepare_for_test, the loop over the subgraphs: a key without a best takes
\* the front of the best of the first loaded key with its tag
AliasLoaded(best, cache) ==
  [k \in AllKeys |->
     IF k \in Keys /\ best[k] = <<>> /\ Tag(k) \in DOMAIN cache
     THEN <<Head(best[cache[Tag(k)]])>>
     ELSE best[k]]

\* a subgraph with no best and no loaded key of its tag: the ASSERT fails
LoadNeverFails(best, cache) == FALSE
LoadFails(best, cache) ==
  \E k \in Keys : best[k] = <<>> /\ Tag(k) \notin DOMAIN cache

\* begin_tuning(task_id, adv, reference, first_stage_number, ratio)
BeginTuning ==
  /\ ctl.pc \in {"added", "tuning", "ended"}
  /\ ctl.begins < ctl.limit
  /\ \E adv \in 1..MaxAdvance : \E reference \in {<<>>, FullReference} :
       LET s == LoadLines(reference,
                  [built |-> built_functions, best |-> best_functions,
                   cache |-> <<>>, id |-> next_id, pushed |-> pushed])
       IN /\ finish' = FALSE
          /\ IF reference = <<>>
             THEN UNCHANGED <<built_functions, best_functions, cached_all_functions,
                             next_id, pushed>>
             ELSE /\ built_functions' = s.built
                  /\ best_functions' = AliasLoaded(s.best, s.cache)
                  /\ cached_all_functions' = TRUE
                  /\ next_id' = s.id
                  /\ pushed' = s.pushed
          /\ sch' = IF threads["schedule"] THEN sch ELSE [NoWorker EXCEPT !.pc = "iter"]
          /\ bld' = IF threads["build"] THEN bld ELSE [NoWorker EXCEPT !.pc = "iter"]
          /\ evl' = IF threads["evaluate"] THEN evl ELSE [NoWorker EXCEPT !.pc = "pass"]
          /\ advance_number' = IF threads["schedule"] THEN advance_number ELSE adv
          /\ threads' = [w \in Workers |-> TRUE]
          /\ in_tuning' = TRUE
          /\ ctl' = [ctl EXCEPT !.pc = "tuning", !.begins = @ + 1]
  /\ UNCHANGED <<multi_graph, future_functions, emergency_schedule_queue,
                 emergency_build_queue, fails, popped, late>>
  /\ UNCHANGED otherVars

\* end_tuning: the caller enters the wait for cached_all_functions[task_id]
EndTuningEnter ==
  /\ ctl.pc = "tuning"
  /\ ctl' = [ctl EXCEPT !.pc = "ending"]
  /\ UNCHANGED <<multi_graph, advance_number, sessionVars, queueVars, sch, bld, evl,
                 next_id, fails, histVars>>
  /\ UNCHANGED otherVars

\* if (threads.find(task_id) == threads.end()) { threads[task_id].join(); erase }:
\* a registered thread is left alone; an unregistered one makes join() throw
JoinSkipped(registered) == registered

\* end_tuning's wait loop: break only when cached_all_functions[task_id] is true
EndTuningNoWait(cached) == TRUE
EndTuningMayProceed(cached) == cached

\* end_tuning after the wait: finish, in_tuning, and the three join blocks
EndTuningFinish ==
  /\ ctl.pc = "ending"
  /\ EndTuningMayProceed(cached_all_functions)
  /\ finish' = TRUE
  /\ in_tuning' = FALSE
  /\ ctl' = [ctl EXCEPT !.pc = IF \A w \in Workers : JoinSkipped(threads[w])
                               THEN "ended" ELSE "error"]
  /\ UNCHANGED <<multi_graph, advance_number, cached_all_functions, threads,
                 queueVars, sch, bld, evl, next_id, fails, histVars>>
  /\ UNCHANGED otherVars

\* ---------------------------------------------------------------- the pipeline

Next ==
  \/ BeginTuning
  \/ EndTuningEnter
  \/ EndTuningFinish
  \/ SchBeginIter
  \/ SchVisit
  \/ SchWait
  \/ BldBeginIter
  \/ BldVisit
  \/ BldWait
  \/ EvlBeginPass
  \/ EvlSweep
  \/ EvlNode

Spec == Init /\ [][Next]_vars

\* ---------------------------------------------------------------- fairness

\* each of the three threads of a task keeps running while it has a step to
\* take; the caller is free to call end_tuning or not
SchThread == SchBeginIter \/ SchVisit \/ SchWait

BldThread == BldBeginIter \/ BldVisit \/ BldWait

EvlThread == EvlBeginPass \/ EvlSweep \/ EvlNode

LiveInit ==
  /\ multi_graph \in LiveGraphs
  /\ InitSession
  /\ context = NoContext
  /\ disk = NoFile
  /\ fresh = NoSession
  /\ InitRest

\* the same session in a run where MaxFaults failures may happen
FaultyInit ==
  /\ multi_graph \in LiveGraphs
  /\ InitQueues
  /\ ctl = [pc |-> "added", begins |-> 0, limit |-> MaxBegin, faults |-> MaxFaults]
  /\ cached_all_functions = FALSE
  /\ best_functions = [k \in AllKeys |-> <<>>]
  /\ context = NoContext
  /\ disk = NoFile
  /\ fresh = NoSession
  /\ InitRest

FairSpec ==
  /\ LiveInit
  /\ [][Next]_vars
  /\ WF_vars(BeginTuning)
  /\ WF_vars(SchThread)
  /\ WF_vars(BldThread)
  /\ WF_vars(EvlThread)

FaultySpec ==
  /\ FaultyInit
  /\ [][Next]_vars
  /\ WF_vars(BeginTuning)
  /\ WF_vars(SchThread)
  /\ WF_vars(BldThread)
  /\ WF_vars(EvlThread)

\* ---------------------------------------------------------------- a count mismatch

\* a MultiGraph that breaks the partitioner's invariant: node 1 names itself
\* as a successor, so its num_predecessor never reaches 0
Knot == [keys |-> {0, 1},
         succ |-> (0 :> {} @@ 1 :> {1}),
         tag  |-> (0 :> "a" @@ 1 :> "b")]

\* throw std::runtime_error(...) leaves the thread function of a std::thread
\* with no handler: std::terminate ends the process, every thread and the
\* caller with it; nothing is written before that
Terminate ==
  /\ sch.pc = "fatal" \/ bld.pc = "fatal"
  /\ ctl.pc /= "aborted"
  /\ sch' = [sch EXCEPT !.pc = "aborted"]
  /\ bld' = [bld EXCEPT !.pc = "aborted"]
  /\ evl' = [evl EXCEPT !.pc = "aborted"]
  /\ ctl' = [ctl EXCEPT !.pc = "aborted"]
  /\ UNCHANGED <<multi_graph, advance_number, sessionVars, queueVars, next_id, fails,
                 histVars>>
  /\ UNCHANGED otherVars

MismatchInit ==
  /\ multi_graph = Knot
  /\ InitSession
  /\ context = NoContext
  /\ disk = NoFile
  /\ fresh = NoSession
  /\ InitRest

MismatchSpec == MismatchInit /\ [][Next \/ Terminate]_vars

\* ---------------------------------------------------------------- two tasks tuning

\* The emergency queues and future_functions are members of the session, not
\* entries of a map over task_id. The schedule worker of a second task U, in
\* its wait loop, reads this->emergency_schedule_queue like the worker of the
\* task that is followed, and resolves the key against U's graphs.
PeerSchWait ==
  /\ emergency_schedule_queue /= <<>>
  /\ \E o \in OutcomesAt(fails) :
       LET q == EmergencySchedule(SchShared, o) IN
       /\ emergency_schedule_queue' = q.esq
       /\ future_functions' = q.ff
       /\ emergency_build_queue' = q.ebq
       /\ next_id' = q.id
       /\ fails' = q.fails
       /\ peer' = IF o.ok THEN [peer EXCEPT !.sch = Append(@, Head(emergency_schedule_queue))]
                  ELSE peer
  /\ UNCHANGED <<multi_graph, advance_number, sessionVars, built_functions,
                 best_functions, sch, bld, evl, ctl, histVars>>
  /\ UNCHANGED <<context, disk, fresh, exe, tasks, pool, call, registry>>

\* the build worker of U in its wait loop
PeerBldWait ==
  /\ emergency_build_queue /= <<>>
  /\ LET b == EmergencyBuild(BldShared) IN
     /\ b /= BldShared
     /\ future_functions' = b.ff
     /\ built_functions' = b.bf
     /\ emergency_build_queue' = b.ebq
     /\ pushed' = b.pushed
     /\ peer' = [peer EXCEPT !.bld = Append(@, Head(emergency_build_queue))]
  /\ UNCHANGED <<multi_graph, advance_number, sessionVars, best_functions,
                 emergency_schedule_queue, sch, bld, evl, ctl, next_id, fails, popped,
                 late>>
  /\ UNCHANGED <<context, disk, fresh, exe, tasks, pool, call, registry>>

SharedSpec == LiveInit /\ [][Next \/ PeerSchWait \/ PeerBldWait]_vars

\* ---------------------------------------------------------------- AutoScheduleContext

\* operator< of EvaluatedScheduleResult and the order of the topk_schedules
\* heap are declared outside auto_schedule.cc: results compare by evaluation
\* and top() is an entry of least evaluation
EvaluatedLess(a, b) == a.evaluation < b.evaluation

HeapTops(q) == {t \in BagToSet(q) : \A u \in BagToSet(q) : ~EvaluatedLess(u, t)}

\* context->topk_schedules after add_feedback(schedule_result, evaluation) with
\* evaluation > 0.0 has pushed: below topk it pushes, else it pops top() first
TopkAlwaysPush(q, ev) == {q (+) SetToBag({ev})}
TopkAfterFeedback(q, ev) ==
  IF BagCardinality(q) < TopK
  THEN {q (+) SetToBag({ev})}
  ELSE {(q (-) SetToBag({top})) (+) SetToBag({ev}) :
          top \in {t \in HeapTops(q) : ~EvaluatedLess(ev, t)}}

\* if (evaluated < topk_schedules.top()) return, on a full heap
FeedbackReturns(q, ev) ==
  /\ BagCardinality(q) >= TopK
  /\ \E top \in HeapTops(q) : EvaluatedLess(ev, top)

\* knowing_schedules.insert(entity); past the limit known_schedules takes over
SeenAfterFeedback(c, e) ==
  LET knowing == c.knowing_schedules \cup {e}
  IN IF Cardinality(knowing) > KnowingLimit
     THEN [c EXCEPT !.known_schedules = knowing, !.knowing_schedules = {}]
     ELSE [c EXCEPT !.knowing_schedules = knowing]

\* AutoScheduleContext::add_feedback: the contexts it may leave
AddFeedback(c, e, v) ==
  IF v > 0
  THEN LET ev == [entity |-> e, evaluation |-> v]
       IN (IF FeedbackReturns(c.topk_schedules, ev) THEN {c} ELSE {})
          \cup {SeenAfterFeedback([c EXCEPT !.topk_schedules = q], e) :
                  q \in TopkAfterFeedback(c.topk_schedules, ev)}
  ELSE {SeenAfterFeedback(c, e)}

\* add_feedback for each entry of fb, in order, from any context of cs
RECURSIVE FeedbackAll(_, _)
FeedbackAll(cs, fb) ==
  IF fb = <<>> THEN cs
  ELSE FeedbackAll(UNION {AddFeedback(c, Head(fb).entity, Head(fb).evaluation) : c \in cs},
                   Tail(fb))

\* the first round of candidates: one copy of a choice for each seen set it is
\* not in
RECURSIVE MustNew(_, _)
MustNew(c, choices) ==
  IF choices = <<>> THEN <<>>
  ELSE LET e == Head(choices) IN
       (IF e \notin c.known_schedules THEN <<e>> ELSE <<>>)
       \o (IF e \notin c.knowing_schedules THEN <<e>> ELSE <<>>)
       \o MustNew(c, Tail(choices))

\* best_ind after the loop over the judges, counted from 1: the first index of
\* the largest judge value, or 0 (the initial -1 of the source) when no judge
\* is above the initial best_value of -1
BestInd(judges) ==
  IF \A j \in DOMAIN judges : judges[j] <= -1 THEN 0
  ELSE CHOOSE i \in DOMAIN judges :
         /\ \A j \in DOMAIN judges : judges[j] <= judges[i]
         /\ \A j \in 1..(i - 1) : judges[j] < judges[i]

\* new_candidates[best_ind]: with best_ind = -1 the vector is read out of its
\* bounds, and the entity read is any entity or none of them (0)
ResultEntities(new_candidates, best_ind) ==
  IF best_ind \in DOMAIN new_candidates THEN {new_candidates[best_ind]}
  ELSE Entities \cup {0}

Scores == MinScore..MaxScore

\* judge_schedule: randdouble() for each schedule under the policy random,
\* the values of the measurer under the policy profile
JudgeValues(policy) == IF policy = "random" THEN 0..MaxScore ELSE Scores

\* auto_schedule after the loop that pops topk_schedules, on the context c0
\* it finds then: the candidates, the judges, the result, counts += 1
SearchFrom(c0) ==
  /\ \E choices \in [1..NewTrial -> Entities] :
     \E relaxed \in [1..NewTrial -> Entities] :
       LET first == MustNew(c0, choices)
           new_candidates == IF first = <<>> THEN relaxed ELSE first
       IN /\ first /= <<>> => relaxed = choices
          /\ \E judges \in [DOMAIN new_candidates -> JudgeValues(c0.policy)] :
               LET fb == [i \in DOMAIN new_candidates |->
                            [entity |-> new_candidates[i], evaluation |-> judges[i]]]
                   fed == IF c0.policy = "profile" THEN FeedbackAll({c0}, fb) ELSE {c0}
               IN \E c1 \in fed :
                  \E result_entity \in ResultEntities(new_candidates, BestInd(judges)) :
                    /\ context' = [c1 EXCEPT !.counts = @ + 1,
                                             !.result = result_entity]
                    /\ call' = [op |-> "search", evaluation |-> 0,
                                entity |-> result_entity,
                                batch |-> new_candidates, judges |-> judges]

\* AutoScheduler::auto_schedule on the context
AutoSchedule ==
  /\ context.counts < MaxCounts
  /\ ~context.searching
  /\ SearchFrom([context EXCEPT !.topk_schedules = EmptyBag])
  /\ UNCHANGED <<pipelineVars, disk, fresh, exe, tasks, pool, registry, peer>>

\* AutoScheduler::feedback_for(key, subgraph, schedule_result, evaluation)
FeedbackFor ==
  /\ \E e \in Entities : \E v \in Scores :
       \E c1 \in AddFeedback(context, e, v) :
         /\ context' = c1
         /\ call' = [op |-> "feedback", entity |-> e, evaluation |-> v,
                     batch |-> <<>>, judges |-> <<>>]
  /\ UNCHANGED <<pipelineVars, disk, fresh, exe, tasks, pool, registry, peer>>

SchedulerInit ==
  /\ multi_graph = Single
  /\ InitSession
  /\ \E policy \in {"random", "profile"} : context = [NoContext EXCEPT !.policy = policy]
  /\ disk = NoFile
  /\ fresh = NoSession
  /\ InitRest

SchedulerNext == AutoSchedule \/ FeedbackFor

SchedulerSpec == SchedulerInit /\ [][SchedulerNext]_vars

\* ---------------------------------------------------------------- search and feedback threads

\* schedule_func runs on a thread of the scheduler's pool, feedback_for on the
\* evaluate thread; neither takes a lock. auto_schedule is followed in two
\* steps: the loop that pops topk_schedules, then the rest
SearchEnter ==
  /\ context.counts < MaxCounts
  /\ ~context.searching
  /\ context' = [context EXCEPT !.topk_schedules = EmptyBag, !.searching = TRUE]
  /\ call' = [op |-> "enter", entity |-> 0, evaluation |-> 0, batch |-> <<>>,
              judges |-> <<>>]
  /\ UNCHANGED <<pipelineVars, disk, fresh, exe, tasks, pool, registry, peer>>

SearchLeave ==
  /\ context.searching
  /\ SearchFrom([context EXCEPT !.searching = FALSE])
  /\ UNCHANGED <<pipelineVars, disk, fresh, exe, tasks, pool, registry, peer>>

ThreadsSpec == SchedulerInit /\ [][SearchEnter \/ SearchLeave \/ FeedbackFor]_vars

\* ---------------------------------------------------------------- a longer tuning

\* the session of one subgraph right after
\* begin_tuning(task, LongAdvance, reference, FirstStageNumber, ratio)
\* returned, for no reference or the reference file of the task
LongInit ==
  /\ multi_graph = Single
  /\ advance_number = LongAdvance
  /\ finish = FALSE
  /\ in_tuning = TRUE
  /\ threads = [w \in Workers |-> TRUE]
  /\ future_functions = [k \in AllKeys |-> <<>>]
  /\ \E reference \in {<<>>, FullReference} :
       LET s == LoadLines(reference,
                  [built |-> [k \in AllKeys |-> <<>>], best |-> [k \in AllKeys |-> <<>>],
                   cache |-> <<>>, id |-> 0, pushed |-> [k \in AllKeys |-> <<>>]])
       IN /\ built_functions = s.built
          /\ best_functions = AliasLoaded(s.best, s.cache)
          /\ cached_all_functions = (reference /= <<>>)
          /\ next_id = s.id
          /\ pushed = s.pushed
  /\ emergency_schedule_queue = <<>>
  /\ emergency_build_queue = <<>>
  /\ sch = [NoWorker EXCEPT !.pc = "iter"]
  /\ bld = [NoWorker EXCEPT !.pc = "iter"]
  /\ evl = [NoWorker EXCEPT !.pc = "pass"]
  /\ ctl = [pc |-> "tuning", begins |-> 1, limit |-> 1, faults |-> MaxFail]
  /\ fails = 0
  /\ popped = [k \in AllKeys |-> <<>>]
  /\ late = 0
  /\ context = NoContext
  /\ disk = NoFile
  /\ fresh = NoSession
  /\ InitRest

LongNext ==
  \/ EndTuningEnter
  \/ EndTuningFinish
  \/ SchThread
  \/ BldThread
  \/ EvlThread

LongSpec == LongInit /\ [][LongNext]_vars

\* ---------------------------------------------------------------- prepare_for_test

\* parts.size() of a line split at "|"
NumFields(line) == Cardinality(DOMAIN line)

\* the lines of a reference file: all four fields, the first two only, or the
\* key alone
ReferenceLines ==
  UNION {{[key |-> k, entity |-> EntityToString(1), gflops |-> DoubleToString(0),
           time |-> DoubleToString(0)],
          [key |-> k, entity |-> EntityToString(1)],
          [key |-> k]} : k \in Keys}

\* the file a reference names: none, or up to MaxLines lines
ReferenceFiles ==
  {NoFile} \cup
  {[written |-> TRUE, lines |-> l] : l \in UNION {[1..n -> ReferenceLines] : n \in 0..MaxLines}}

\* the lines read before the first line that fails ASSERT(parts.size() >= 2U)
RECURSIVE GoodPrefix(_)
GoodPrefix(lines) ==
  IF lines = <<>> \/ NumFields(Head(lines)) < 2 THEN <<>>
  ELSE <<Head(lines)>> \o GoodPrefix(Tail(lines))

\* ERROR and a failed ASSERT end the call: nothing after them is executed
FatalCall(c) == [c EXCEPT !.pc = "error", !.begins = @ + 1]

\* prepare_for_test(task_id, reference); with at most two subgraphs no key is
\* aliased before the ASSERT of the loop over the subgraphs fails
PrepareForTest ==
  /\ ctl.pc \in {"added", "loaded"}
  /\ ctl.begins < ctl.limit
  /\ \E file \in ReferenceFiles :
       LET lines == GoodPrefix(file.lines)
           s == LoadLines(lines,
                  [built |-> built_functions, best |-> best_functions,
                   cache |-> <<>>, id |-> next_id, pushed |-> pushed])
           fatal == \/ ~file.written
                    \/ Len(lines) < Len(file.lines)
                    \/ LoadFails(s.best, s.cache)
       IN /\ disk' = file
          /\ built_functions' = s.built
          /\ next_id' = s.id
          /\ pushed' = s.pushed
          /\ IF fatal
             THEN /\ best_functions' = s.best
                  /\ UNCHANGED cached_all_functions
                  /\ ctl' = FatalCall(ctl)
             ELSE /\ best_functions' = AliasLoaded(s.best, s.cache)
                  /\ cached_all_functions' = TRUE
                  /\ ctl' = [ctl EXCEPT !.pc = "loaded", !.begins = @ + 1]
  /\ UNCHANGED <<multi_graph, advance_number, finish, in_tuning, threads,
                 future_functions, emergency_schedule_queue, emergency_build_queue,
                 sch, bld, evl, fails, popped, late, context, fresh, restVars>>

\* a session after add_task(graph), before any tuning
PrepareInit ==
  /\ multi_graph \in Graphs
  /\ InitQueues
  /\ ctl = [pc |-> "added", begins |-> 0, limit |-> MaxLoads, faults |-> MaxFail]
  /\ cached_all_functions = FALSE
  /\ best_functions = [k \in AllKeys |-> <<>>]
  /\ context = NoContext
  /\ disk = NoFile
  /\ fresh = NoSession
  /\ InitRest

PrepareNext == PrepareForTest

PrepareSpec == PrepareInit /\ [][PrepareNext]_vars

\* ---------------------------------------------------------------- add_task

\* a MultiGraph has no cycle: its keys can be ranked along the edges
Acyclic(g) ==
  \E rank \in [g.keys -> 1..Cardinality(g.keys)] :
    \A j \in g.keys : \A k \in g.succ[j] : rank[j] < rank[k]

\* the acyclic MultiGraphs of up to MaxKeys subgraphs
TaskGraphs ==
  UNION {{g \in {[keys |-> 0..(n - 1), succ |-> s, tag |-> [k \in 0..(n - 1) |-> "a"]] :
                   s \in [0..(n - 1) -> SUBSET (0..(n - 1))]} : Acyclic(g)} :
         n \in 1..MaxKeys}

\* kv.second->num_predecessor of a subgraph of g
NumPredecessorIn(g, k) == Cardinality({j \in g.keys : k \in g.succ[j]})

\* the orders in which a range-for may visit an unordered_set
Visits(S) ==
  {f \in [1..Cardinality(S) -> S] : \A i, j \in DOMAIN f : i /= j => f[i] /= f[j]}

\* if (kv.second->num_predecessor == 0) free_set.insert(kv.first)
FreeSetAll(g) == g.keys
FreeSet(g) == {k \in g.keys : NumPredecessorIn(g, k) = 0}

\* while (!free_set.empty()): one level is appended in the order the set is
\* visited; call_order[v] -= 1 for each successor, and v joins update_set
\* when its count reaches 0
RECURSIVE CallOrders(_, _, _, _)
CallOrders(g, call_order, free_set, order) ==
  IF free_set = {} THEN {order}
  ELSE LET after == [v \in g.keys |->
                       call_order[v] - Cardinality({k \in free_set : v \in g.succ[k]})]
           update_set == {v \in g.keys : /\ \E k \in free_set : v \in g.succ[k]
                                         /\ call_order[v] > 0
                                         /\ after[v] <= 0}
       IN  UNION {CallOrders(g, after, update_set, order \o visit) :
                    visit \in Visits(free_set)}

\* the vector add_task stores in static_call_order[task_id]
StaticCallOrders(g) ==
  CallOrders(g, [k \in g.keys |-> NumPredecessorIn(g, k)], FreeSet(g), <<>>)

\* add_task(graph): task_id = task_count++, task_cache and static_call_order
AddTask ==
  /\ tasks.count < MaxTasks
  /\ \E g \in TaskGraphs : \E order \in StaticCallOrders(g) :
       tasks' = [count |-> tasks.count + 1,
                 cache |-> Append(tasks.cache, g),
                 order |-> Append(tasks.order, order),
                 returned |-> Append(tasks.returned, tasks.count)]
  /\ UNCHANGED <<pipelineVars, context, disk, fresh, exe, pool, call, registry, peer>>

TaskInit ==
  /\ multi_graph = Single
  /\ InitSession
  /\ context = NoContext
  /\ disk = NoFile
  /\ fresh = NoSession
  /\ InitRest

TaskNext == AddTask

TaskSpec == TaskInit /\ [][TaskNext]_vars

\* ---------------------------------------------------------------- run

\* run's check: no error when the functions are cached or the task is in tuning
RunAcceptsCachedOnly(cached, tuning) == cached
RunAccepts(cached, tuning) == cached \/ tuning

\* static_call_order[task_id] of the task of the session
StaticCallOrder == tasks.order[1]

\* run(task_id, bindings, save_to, profile_level) up to the call of
\* run_functions; what follows an ERROR report is either the abort of the
\* call or the fall through to run_functions
RunCall ==
  /\ exe.pc = "idle"
  /\ exe.runs < MaxRuns
  /\ ctl.pc \in {"added", "tuning", "ended"}
  /\ \E n \in 1..MaxBindings : \E falls_through \in BOOLEAN :
       LET accepted == RunAccepts(cached_all_functions, in_tuning) IN
       exe' = [pc |-> IF accepted \/ falls_through THEN "running" ELSE "aborted",
               runs |-> exe.runs + 1,
               error |-> ~accepted,
               iters |-> n,
               ad |-> 0,
               pos |-> 1,
               invoked |-> <<>>]
  /\ UNCHANGED <<pipelineVars, context, disk, fresh, tasks, pool, call, registry, peer>>

\* run_helper(key) succeeds when best_functions[key] is not empty
RunHelperAlways(q) == TRUE
RunHelperReady(q) == q /= <<>>

\* for (k : static_call_order[task_id]) { while (!run_helper(k)) {} }: one
\* successful run_helper; invoked lists the callables of the iteration
RunHelper ==
  /\ exe.pc = "running"
  /\ LET key == StaticCallOrder[exe.pos]
         invoked == IF exe.pos = 1 THEN <<key>> ELSE Append(exe.invoked, key)
     IN /\ RunHelperReady(best_functions[key])
        /\ exe' = IF exe.pos < Len(StaticCallOrder)
                  THEN [exe EXCEPT !.pos = @ + 1, !.invoked = invoked]
                  ELSE [exe EXCEPT !.pos = 1, !.ad = @ + 1, !.invoked = invoked,
                                   !.pc = IF exe.ad + 1 < exe.iters
                                          THEN "running" ELSE "idle"]
  /\ UNCHANGED <<pipelineVars, context, disk, fresh, tasks, pool, call, registry, peer>>

\* a session after add_task(graph): a task that is tuned twice, or a chain
\* of two subgraphs tuned once
SessionInit ==
  /\ \/ multi_graph = Single /\ ctl = [pc |-> "added", begins |-> 0, limit |-> MaxRebegin, faults |-> MaxFail]
     \/ multi_graph = Chain /\ ctl = [pc |-> "added", begins |-> 0, limit |-> MaxBegin, faults |-> MaxFail]
  /\ InitQueues
  /\ cached_all_functions = FALSE
  /\ best_functions = [k \in AllKeys |-> <<>>]
  /\ context = NoContext
  /\ disk = NoFile
  /\ fresh = NoSession
  /\ exe = NoRun
  /\ pool = NoPool
  /\ call = NoCall
  /\ registry = NoRegistry
  /\ peer = NoPeer
  /\ \E order \in StaticCallOrders(multi_graph) :
       tasks = [count |-> 1, cache |-> <<multi_graph>>, order |-> <<order>>,
                returned |-> <<0>>]

\* the caller is one thread: it calls begin_tuning and end_tuning between
\* its run calls, while the three workers run on their own
CallerBeginTuning == exe.pc /= "running" /\ BeginTuning

CallerEndTuning == exe.pc /= "running" /\ EndTuningEnter

SessionNext ==
  \/ CallerBeginTuning
  \/ CallerEndTuning
  \/ EndTuningFinish
  \/ SchThread
  \/ BldThread
  \/ EvlThread
  \/ RunCall
  \/ RunHelper

SessionSpec == SessionInit /\ [][SessionNext]_vars

\* ---------------------------------------------------------------- session registry

\* the Session made by create under an id
SessionOf(id) == [kind |-> "session", id |-> id]

\* a null std::shared_ptr<Session>
NullPtr == [kind |-> "nullptr", id |-> 0]

\* the ASSERT on sessions.find failed
NoSuchSession == [kind |-> "error", id |-> 0]

\* sessions[k] on a std::unordered_map: a missing key is inserted with a null
\* pointer
Subscript(sessions, k) ==
  IF k \in DOMAIN sessions THEN sessions ELSE (k :> NullPtr) @@ sessions

\* the create branch: sessions[global_count] = make_shared<Session>(...),
\* session_id = global_count, global_count += 1, return sessions[global_count]
CreateSession ==
  /\ registry.global_count < MaxSessions
  /\ LET id == registry.global_count
         made == [k \in DOMAIN registry.sessions \cup {id} |->
                    IF k = id THEN SessionOf(id) ELSE registry.sessions[k]]
     IN registry' = [sessions |-> Subscript(made, id + 1),
                     global_count |-> id + 1,
                     live |-> registry.live \cup {id},
                     op |-> "create", arg |-> id, result |-> [kind |-> "id", id |-> id]]
  /\ UNCHANGED <<pipelineVars, context, disk, fresh, exe, tasks, pool, call, peer>>

\* get_session(session_id): the ASSERT on sessions.find, then sessions[session_id]
GetSession ==
  /\ \E id \in 0..MaxSessions :
       registry' = [registry EXCEPT
                      !.op = "get", !.arg = id,
                      !.result = IF id \in DOMAIN registry.sessions
                                 THEN registry.sessions[id] ELSE NoSuchSession]
  /\ UNCHANGED <<pipelineVars, context, disk, fresh, exe, tasks, pool, call, peer>>

\* delete_session(session_id): the ASSERT on sessions.find, then sessions.erase
DeleteSession ==
  /\ \E id \in 0..MaxSessions :
       registry' = IF id \in DOMAIN registry.sessions
                   THEN [registry EXCEPT
                           !.sessions = [k \in DOMAIN registry.sessions \ {id} |->
                                           registry.sessions[k]],
                           !.live = @ \ {id},
                           !.op = "delete", !.arg = id, !.result = NullPtr]
                   ELSE [registry EXCEPT !.op = "delete", !.arg = id, !.result = NoSuchSession]
  /\ UNCHANGED <<pipelineVars, context, disk, fresh, exe, tasks, pool, call, peer>>

RegistryInit ==
  /\ multi_graph = Single
  /\ InitSession
  /\ context = NoContext
  /\ disk = NoFile
  /\ fresh = NoSession
  /\ InitRest

RegistryNext == CreateSession \/ GetSession \/ DeleteSession

RegistrySpec == RegistryInit /\ [][RegistryNext]_vars

\* ---------------------------------------------------------------- ThreadPool

\* the priority argument of schedule_for: 0 normal, 1 emergency
Priorities == {0, 1}

\* ThreadPool::push_back: tasks.emplace_back
PushBack(q, job) == Append(q, job)

\* ThreadPool::push_front: tasks.emplace_back as well
PushFront(q, job) == Append(q, job)

\* AutoScheduler::schedule_for(key, subgraph, target, priority)
ScheduleFor ==
  /\ pool.submitted < MaxJobs
  /\ \E priority \in Priorities :
       LET job == [id |-> pool.submitted + 1, priority |-> priority] IN
       pool' = [tasks |-> IF priority = 0 THEN PushBack(pool.tasks, job)
                          ELSE PushFront(pool.tasks, job),
                submitted |-> pool.submitted + 1]
  /\ UNCHANGED <<pipelineVars, context, disk, fresh, exe, tasks, call, registry, peer>>

\* a worker of the pool: task = tasks.front(); tasks.pop_front(); task()
PoolWorker ==
  /\ pool.tasks /= <<>>
  /\ pool' = [pool EXCEPT !.tasks = Tail(@)]
  /\ UNCHANGED <<pipelineVars, context, disk, fresh, exe, tasks, call, registry, peer>>

PoolInit ==
  /\ multi_graph = Single
  /\ InitSession
  /\ context = NoContext
  /\ disk = NoFile
  /\ fresh = NoSession
  /\ InitRest

PoolNext == ScheduleFor \/ PoolWorker

PoolSpec == PoolInit /\ [][PoolNext]_vars

\* ---------------------------------------------------------------- save and load

\* the tuples a tuned key may hold at the front of best_functions[key]
BestRecords(k) ==
  {[sch |-> [id |-> k + 1, ent |-> e], gflops |-> GflopsOf(t), time |-> t] :
     e \in Entities, t \in 1..MaxTime}
  \cup {[sch |-> [id |-> k + 1, ent |-> e], gflops |-> Sentinel, time |-> Sentinel] :
           e \in Entities}

\* the line run_functions writes for a key
SavedLine(k) ==
  LET rec == Front(best_functions[k]) IN
  [key |-> k, entity |-> EntityToString(rec.sch.ent),
   gflops |-> DoubleToString(rec.gflops), time |-> DoubleToString(rec.time)]

\* run(task, bindings, save_to = P): one line for each key with a best record,
\* in the iteration order of best_functions
Save ==
  /\ ~disk.written
  /\ \E order \in [1..Cardinality(Keys) -> Keys] :
       /\ \A i, j \in DOMAIN order : i /= j => order[i] /= order[j]
       /\ disk' = [written |-> TRUE, lines |-> [i \in DOMAIN order |-> SavedLine(order[i])]]
  /\ UNCHANGED <<pipelineVars, context, fresh, restVars>>

\* prepare_for_test(task, P) in a fresh session with the same task
FreshLoad ==
  /\ disk.written
  /\ ~fresh.loaded
  /\ LET s == LoadLines(disk.lines,
                [built |-> NoSession.built_functions, best |-> NoSession.best_functions,
                 cache |-> <<>>, id |-> 0, pushed |-> [k \in AllKeys |-> <<>>]])
     IN fresh' = [loaded |-> TRUE, built_functions |-> s.built,
                  best_functions |-> AliasLoaded(s.best, s.cache)]
  /\ UNCHANGED <<pipelineVars, context, disk, restVars>>

\* a session whose tuning has ended with a best record for every key
RoundTripInit ==
  /\ multi_graph \in Graphs
  /\ InitThreads
  /\ cached_all_functions = TRUE
  /\ best_functions \in [AllKeys -> {<<rec>> : rec \in UNION {BestRecords(k) : k \in AllKeys}}]
  /\ \A k \in AllKeys : Front(best_functions[k]) \in BestRecords(k)
  /\ context = NoContext
  /\ disk = NoFile
  /\ fresh = NoSession
  /\ InitRest

RoundTripNext == Save \/ FreshLoad

RoundTripSpec == RoundTripInit /\ [][RoundTripNext]_vars

\* ---------------------------------------------------------------- properties

\* C1: under fair scheduling of the three workers, once begin_tuning has been
\* called the session eventually has cached_all_functions set and a best
\* record for every key of the task.
C1_Convergence ==
  (ctl.begins > 0) ~> (cached_all_functions /\ \A k \in Keys : best_functions[k] /= <<>>)

\* C2: no step lowers the gflops of the record at the head of
\* best_functions[key], and no step empties a best queue.
C2_MonotoneBest ==
  [][\A k \in AllKeys :
       best_functions[k] /= <<>> =>
         /\ best_functions'[k] /= <<>>
         /\ Front(best_functions'[k]).gflops >= Front(best_functions[k]).gflops]_vars

\* C3: with finish set, the evaluate worker begins at most the one measurement
\* it could already have been in when finish was set.
C3_Cancellation == late <= 1

\* C4: when end_tuning has returned, the three workers have terminated and none
\* is registered for the task.
C4_EndTuningJoins ==
  ctl.pc = "ended" =>
    /\ \A w \in Workers : ~threads[w]
    /\ sch.pc = "done" /\ bld.pc = "done" /\ evl.pc = "done"

\* C5: built_functions[key] never holds more artifacts than the queue limit.
C5_Backpressure == \A k \in AllKeys : Len(built_functions[k]) <= QueueLimit

\* C6: in a first-stage pass of the schedule worker, every node the for loop is
\* about to process has all its predecessors marked done in this pass.
C6_DagOrder ==
  (sch.pc = "visit" /\ sch.first) =>
    \A k \in sch.todo : Predecessors(k) \subseteq sch.done

\* a first-stage pass is about to process a node that has a predecessor
C6_Witness ==
  /\ sch.pc = "visit" /\ sch.first
  /\ \E k \in sch.todo : Predecessors(k) /= {} /\ Predecessors(k) \subseteq sch.done

\* C7: top_k of a context never holds more than autoschedule_topk entries.
C7_TopKBounded == BagCardinality(context.topk_schedules) <= TopK

\* top_k is full after searches and after feedback on more than one entity
C7_Witness ==
  /\ BagCardinality(context.topk_schedules) = TopK
  /\ context.counts > 0
  /\ context.known_schedules /= {}

\* C8: after a save and a load in a fresh session, the best record of every
\* key written has the gflops written in the file for that key.
C8_RoundTrip ==
  fresh.loaded =>
    \A i \in DOMAIN disk.lines :
      DoubleToString(Front(fresh.best_functions[disk.lines[i].key]).gflops)
        = disk.lines[i].gflops

\* C9: when the evaluate worker has completed a pass, two keys with the same
\* tag hold the same record at the head of their best queues.
C9_TagAliasing ==
  (evl.pc = "pass" /\ evl.complete) =>
    \A j, k \in Keys :
      Tag(j) = Tag(k) =>
        /\ best_functions[j] /= <<>>
        /\ best_functions[k] /= <<>>
        /\ Front(best_functions[j]) = Front(best_functions[k])

\* C10: for every key, the artifacts the evaluate worker has popped are, in
\* order, the first of the artifacts pushed into built_functions[key].
C10_Fifo ==
  \A k \in AllKeys :
    /\ Len(popped[k]) <= Len(pushed[k])
    /\ \A i \in 1..Len(popped[k]) : popped[k][i] = pushed[k][i]

\* two artifacts of one key have been popped, the second pushed while the
\* first was still queued or after it
C10_Witness == \E k \in AllKeys : Len(popped[k]) >= 2 /\ popped[k][1] /= popped[k][2]

\* a step of feedback_for(key, subgraph, schedule_result, evaluation) with the
\* entity and the evaluation of call'
FeedbackStep == call'.op = "feedback" /\ <<context, call>>' /= <<context, call>>

Fed == [entity |-> call'.entity, evaluation |-> call'.evaluation]

\* C15: feedback with a positive score inserts below K entries; on K entries
\* it replaces a minimum entry when its score is strictly greater than the
\* minimum and leaves top_k unchanged otherwise; a non-positive score leaves
\* top_k unchanged.
C15_FeedbackTopK ==
  [][FeedbackStep =>
       LET q == context.topk_schedules
           q1 == context'.topk_schedules
           least == {t \in BagToSet(q) : \A u \in BagToSet(q) : t.evaluation <= u.evaluation}
       IN IF Fed.evaluation <= 0 THEN q1 = q
          ELSE IF BagCardinality(q) < TopK THEN q1 = q (+) SetToBag({Fed})
          ELSE IF \A t \in least : Fed.evaluation > t.evaluation
          THEN \E t \in least : q1 = (q (-) SetToBag({t})) (+) SetToBag({Fed})
          ELSE q1 = q]_vars

\* C16: every feedback_for call inserts the entity into knowing_schedules
\* (seen_active); past the limit known_schedules (seen_stable) takes the set
\* and knowing_schedules is emptied.
C16_FeedbackSeen ==
  [][FeedbackStep =>
       LET seen == context.knowing_schedules \cup {Fed.entity} IN
       /\ IF Cardinality(seen) > KnowingLimit
          THEN context'.known_schedules = seen /\ context'.knowing_schedules = {}
          ELSE context'.knowing_schedules = seen
       /\ Cardinality(context'.knowing_schedules) <= KnowingLimit]_vars

\* C17: every feedback_for call increases counts of the context by one.
C17_FeedbackCounts ==
  [][FeedbackStep => context'.counts = context.counts + 1]_vars

\* C14: when a worker of the pool starts a normal job, no emergency job
\* submitted after it is waiting: the emergency job would have been started
\* first.
C14_EmergencyFirst ==
  [][(pool.tasks /= <<>> /\ pool'.tasks = Tail(pool.tasks)
        /\ pool'.submitted = pool.submitted /\ Head(pool.tasks).priority = 0)
       => \A i \in DOMAIN pool.tasks :
            ~(pool.tasks[i].priority = 1 /\ pool.tasks[i].id > Head(pool.tasks).id)]_vars

\* C12: finish turns true only in the step of end_tuning that leaves its wait
\* loop, and only when cached_all_functions is true; while end_tuning waits
\* and cached_all_functions is false, finish is not set and end_tuning does
\* not return.
C12_FinishOnlyCached ==
  [][/\ (~finish /\ finish') =>
          (ctl.pc = "ending" /\ ctl'.pc \in {"ended", "error"} /\ cached_all_functions)
     /\ (ctl.pc = "ending" /\ ~cached_all_functions) =>
          (ctl'.pc = "ending" /\ finish' = finish)]_vars

C12_Witness == ctl.pc \in {"ended", "error"} /\ finish /\ cached_all_functions

\* C20: the i-th add_task returns i - 1, and the static call order it stores
\* holds every key of the graph exactly once, each key after all of its
\* predecessors.
C20_AddTask ==
  \A i \in 1..Len(tasks.returned) :
    LET g == tasks.cache[i]
        order == tasks.order[i]
    IN /\ tasks.returned[i] = i - 1
       /\ Len(order) = Cardinality(g.keys)
       /\ {order[p] : p \in DOMAIN order} = g.keys
       /\ \A p, q \in DOMAIN order : order[q] \in g.succ[order[p]] => p < q

C20_Witness ==
  /\ tasks.count = MaxTasks
  /\ \E i \in 1..Len(tasks.cache) :
       /\ Cardinality(tasks.cache[i].keys) = MaxKeys
       /\ \E k \in tasks.cache[i].keys : tasks.cache[i].succ[k] /= {}
       /\ tasks.order[i][1] /= 0

\* C11: a begin_tuning call made while the task is tuning, with its three
\* workers spawned, leaves finish, in_tuning, built_functions, best_functions
\* and cached_all_functions as they were.
C11_BeginIdempotent ==
  [][(ctl'.begins = ctl.begins + 1 /\ ctl.pc = "tuning" /\ \A w \in Workers : threads[w])
       => UNCHANGED <<finish, in_tuning, built_functions, best_functions,
                      cached_all_functions>>]_vars

\* C13: best_functions[key] never holds more than one record.
C13_OneBest == \A k \in AllKeys : Len(best_functions[k]) <= 1

\* C18: a run call reports an error exactly when neither cached_all_functions
\* nor in_tuning is true, and goes on to execute when it reports none; a run
\* between begin_tuning and end_tuning, and a run after end_tuning returned,
\* report no error.
C18_RunPrecondition ==
  [][(exe'.runs = exe.runs + 1) =>
       /\ exe'.error <=> ~(cached_all_functions \/ in_tuning)
       /\ ~exe'.error => exe'.pc = "running"
       /\ ctl.pc = "tuning" => ~exe'.error
       /\ ctl.pc = "ended" => (cached_all_functions /\ ~exe'.error)]_vars

C18_Witness ==
  /\ exe.runs = 1 /\ exe.pc = "running" /\ ~exe.error
  /\ ~cached_all_functions /\ in_tuning

\* C19: every callable run invokes is the next key of the static call order,
\* its best_functions queue is not empty when it is invoked, and an iteration
\* ends only when every key of the order has been invoked once, in order.
C19_ExecuteOrder ==
  [][(exe.pc = "running" /\ exe' /= exe) =>
       /\ exe'.invoked = SubSeq(StaticCallOrder, 1, Len(exe'.invoked))
       /\ Len(exe'.invoked) = IF exe.pos = 1 THEN 1 ELSE Len(exe.invoked) + 1
       /\ best_functions[exe'.invoked[Len(exe'.invoked)]] /= <<>>
       /\ exe'.ad /= exe.ad => exe'.invoked = StaticCallOrder]_vars

C19_Witness ==
  /\ exe.pc = "idle" /\ exe.runs = 1 /\ exe.ad = MaxBindings
  /\ Len(StaticCallOrder) = 2 /\ exe.invoked = StaticCallOrder

\* C23: cached_all_functions implies a best record for every key of the
\* task, and the evaluate worker executes its assignment of
\* cached_all_functions only at the end of a pass that emptied the free set,
\* not of a pass left because finish was seen.
C23_CachedAfterFullPass ==
  [][/\ cached_all_functions' => \A k \in Keys : best_functions'[k] /= <<>>
     /\ (evl.pc = "sweep" /\ evl'.pc = "pass" /\ cached_all_functions')
          => evl.free = {}]_vars

\* C21: a prepare_for_test call on a readable file whose lines all have two
\* fields or more, and that leaves no subgraph without a record of its own
\* or of a loaded key of its tag, completes with cached_all_functions true
\* and a best record for every subgraph; a missing file, a line with fewer
\* than two fields or a subgraph with neither ends the call with
\* cached_all_functions as it was.
C21_PrepareForTest ==
  [][(ctl'.begins = ctl.begins + 1) =>
       LET lines == disk'.lines
           bad == ~disk'.written \/ \E i \in DOMAIN lines : NumFields(lines[i]) < 2
           orphan == \E k \in Keys : /\ best_functions[k] = <<>>
                                     /\ \A i \in DOMAIN lines : Tag(lines[i].key) /= Tag(k)
       IN IF bad \/ orphan
          THEN ctl'.pc = "error" /\ cached_all_functions' = cached_all_functions
          ELSE /\ ctl'.pc = "loaded"
               /\ cached_all_functions'
               /\ \A k \in Keys :
                    /\ best_functions'[k] /= <<>>
                    /\ best_functions[k] = <<>> =>
                         \E i \in DOMAIN lines :
                           /\ Tag(lines[i].key) = Tag(k)
                           /\ Head(best_functions'[k]).sch.ent =
                                EntityFromString(lines[i].entity)
                           /\ Head(best_functions'[k]).gflops = Sentinel]_vars

C21_Witness ==
  /\ ctl.pc = "loaded" /\ ctl.begins = 1 /\ cached_all_functions
  /\ multi_graph = Chain
  /\ disk.written /\ Len(disk.lines) = 1 /\ disk.lines[1].key = 0
  /\ best_functions[1] /= <<>>

\* C22: create_session returns an id no earlier create_session returned;
\* get_session(id) returns the session created under id when id was
\* returned by create_session and not deleted since, and an error for every
\* other id; get_session leaves the registry's entries as they were.
C22_Registry ==
  [][/\ (registry'.op = "create" /\ registry' /= registry) =>
          (registry'.result.kind = "id" /\ registry'.result.id >= registry.global_count)
     /\ (registry'.op = "get" /\ registry' /= registry) =>
          /\ registry'.result = IF registry'.arg \in registry.live
                                THEN SessionOf(registry'.arg) ELSE NoSuchSession
          /\ registry'.sessions = registry.sessions]_vars

\* C24: the build worker removes from future_functions[key] the entry whose
\* module it waits for, so no schedule result is pushed into
\* built_functions[key] twice.
C24_FutureConsumed ==
  \A k \in AllKeys : \A i, j \in DOMAIN pushed[k] :
    i /= j => pushed[k][i] /= pushed[k][j]

\* C25: when the build worker pops an entry of future_functions[key] whose
\* build succeeds, the artifact is in built_functions[key] once the worker
\* has dealt with the entry: a full queue does not make it drop the artifact.
C25_NoArtifactLost ==
  [][\A k \in AllKeys :
       (/\ future_functions[k] /= <<>>
        /\ future_functions'[k] = Tail(future_functions[k])
        /\ Head(future_functions[k]).ok)
       => \E i \in DOMAIN built_functions'[k] :
            built_functions'[k][i] = Head(future_functions[k]).sch]_vars

\* a step of auto_schedule on the context, with its batch and judge values
\* in call'
SearchStep == call'.op = "search" /\ <<context, call>>' /= <<context, call>>

\* C26: a search step under the policy random leaves top_k with the entries
\* it had before the step.
C26_SearchKeepsTopK ==
  [][(SearchStep /\ context.policy = "random")
       => context'.topk_schedules = context.topk_schedules]_vars

\* C27: every search step scores exactly new_trial candidates.
C27_BatchSize == [][SearchStep => Len(call'.batch) = NewTrial]_vars

\* C28: the entity a search step returns is a candidate of its batch whose
\* judge value is at least the judge value of every candidate of the batch.
C28_BestOfBatch ==
  [][SearchStep =>
       \E i \in DOMAIN call'.batch :
         /\ call'.batch[i] = call'.entity
         /\ \A j \in DOMAIN call'.batch : call'.judges[j] <= call'.judges[i]]_vars

NewFutures ==
  LET grown(k) == Len(future_functions'[k]) - Len(future_functions[k])
  IN grown(0) + grown(1)

C31_EmergencyCondition ==
  [][(evl.pc = "node" /\ evl' /= evl)
     => /\ \A k \in Keys :
             emergency_schedule_queue' = Append(emergency_schedule_queue, k)
               <=> (popped'[k] /= popped[k] /\ best_functions'[k] = <<>>)
        /\ \/ emergency_schedule_queue' = emergency_schedule_queue
           \/ \E k \in Keys :
                /\ emergency_schedule_queue' = Append(emergency_schedule_queue, k)
                /\ best_functions[k] = <<>>
                /\ built_functions[k] /= <<>>
                /\ built_functions'[k] = Tail(built_functions[k])]_vars

\* a key is on the emergency schedule queue after an artifact of it was popped
\* and it has no best
C31_Witness ==
  /\ emergency_schedule_queue /= <<>>
  /\ popped[Head(emergency_schedule_queue)] /= <<>>
  /\ best_functions[Head(emergency_schedule_queue)] = <<>>

\* C32: while finish is false, a key on the emergency schedule queue leads to a
\* non-empty best_functions[key] (or to finish being set).
C32_EmergencyLive ==
  \A k \in AllKeys :
    (\E i \in DOMAIN emergency_schedule_queue : emergency_schedule_queue[i] = k)
      ~> (best_functions[k] /= <<>> \/ finish)

\* C33: on an acyclic graph the schedule worker never raises the count
\* mismatch; in a first-stage iteration schedule_count is the number of nodes
\* marked done, a visit marks at most the one node it counts, and the visit
\* that ends the iteration marks the last node: the free set is then empty and
\* schedule_count is the node count.
C33_FirstStageComplete ==
  [][/\ sch'.pc /= "fatal"
     /\ (sch.pc = "visit" /\ sch.first /\ ~finish /\ ctl' = ctl /\ sch' /= sch)
          => /\ sch.count = Cardinality(sch.done)
             /\ sch'.pc = "visit"
                  => /\ sch'.count = Cardinality(sch'.done)
                     /\ sch.done \subseteq sch'.done
                     /\ sch'.count - sch.count \in {0, 1}
             /\ sch'.pc = "iter"
                  => /\ sch.count + 1 = Cardinality(Keys)
                     /\ \E c \in sch.todo :
                          /\ c \notin sch.done
                          /\ sch.done \cup {c} = Keys
                          /\ (sch.free \ (sch.del \cup {c})) \cup sch.upd = {}]_vars

\* a first-stage iteration over the chain 0 -> 1 has ended
C33_Witness ==
  /\ multi_graph = Chain
  /\ sch.pc = "wait"
  /\ sch.ad = 1
  /\ ~cached_all_functions
  /\ next_id >= 1

\* C34: within one iteration the schedule worker issues at most one
\* normal-priority search for each tag, and a visit that issues none (the tag
\* was seen) pushes nothing onto future_functions beyond the emergency's future.
C34_OneSearchPerTag ==
  [][/\ \A i, j \in DOMAIN sch'.asked : i /= j => sch'.asked[i] /= sch'.asked[j]
     /\ (/\ sch.pc = "visit" /\ ~finish /\ ctl' = ctl /\ sch' /= sch
         /\ sch'.pc = "visit" /\ sch'.asked = sch.asked
         /\ emergency_schedule_queue = <<>>)
          => /\ future_functions' = future_functions
             /\ next_id' = next_id
             /\ sch'.count = sch.count + 1]_vars

\* C35: the build worker never raises the count mismatch, and a visit that
\* builds nothing (no future at hand, or a failed compile: build_count stays)
\* marks its node done and releases the successors when allow_missing holds,
\* and otherwise leaves the node in the free set with every counter as it was.
C35_AllowMissing ==
  [][/\ bld'.pc /= "fatal"
     /\ (/\ bld.pc = "visit" /\ ~finish /\ ctl' = ctl /\ bld' /= bld
         /\ bld'.pc = "visit" /\ bld'.count = bld.count)
          => IF bld.allow
             THEN \E cand \in bld.todo \ bld.done :
                    /\ bld'.done = bld.done \cup {cand}
                    /\ bld'.order = ReleasedOrder(bld.order, cand)
                    /\ cand \notin bld'.free \/ bld'.todo = bld.todo \ {cand}
             ELSE \E cand \in bld.todo :
                    /\ bld'.done = bld.done
                    /\ bld'.order = bld.order
                    /\ cand \in bld'.free]_vars

\* under allow_missing a node has been passed without a build
C35_Witness ==
  /\ bld.pc = "visit"
  /\ bld.allow
  /\ Cardinality(bld.done) > bld.count

\* C36: once a count mismatch has stopped the workers of the task, in_tuning
\* of the task is false and the session, with its caller, is still running.
C36_TaskAborted ==
  (sch.pc = "aborted" \/ bld.pc = "aborted") => (~in_tuning /\ ctl.pc /= "aborted")

\* C37: while a search is inside auto_schedule on the context of a key, no
\* feedback_for step is taken on that context.
C37_MutualExclusion ==
  [][context.searching => ~(call'.op = "feedback" /\ <<context, call>>' /= <<context, call>>)]_vars

\* C40: no step empties a best_functions[key] that holds a record.
C40_BestStays ==
  [][\A k \in AllKeys : best_functions[k] /= <<>> => best_functions'[k] /= <<>>]_vars

\* the second artifact measured for a key replaced the best the key had
C40_Witness ==
  \E k \in AllKeys :
    /\ fails = 0
    /\ Len(popped[k]) = 2
    /\ best_functions[k] /= <<>>
    /\ Head(best_functions[k]).sch.id = popped[k][2]

\* C39: while finish is false, a non-empty emergency build queue leads to an
\* empty one: the key at its head is removed and so are the keys behind it.
C39_BuildQueueDrains ==
  (emergency_build_queue /= <<>>) ~> (emergency_build_queue = <<>> \/ finish)

\* C38: a key that the evaluate worker of the followed task pushed onto an
\* emergency queue is never taken by a worker of another task.
C38_SingleConsumer == peer.sch = <<>> /\ peer.bld = <<>>

====
